---------------------------- MODULE Spec2Model ----------------------------
(***************************************************************************)
(* A model of the AMZN 10-Q scraper (scrape_10q.py) and of the price       *)
(* aligner (scrape_price.py).                                              *)
(*                                                                         *)
(* Text is a sequence of atoms.  An atom is either one character (a digit, *)
(* ",", ".", "$", "(", ")", ":", "-", " ", "\n") or one case-folded word   *)
(* ("net", "income", "(loss)", ...).  Every regular expression and every   *)
(* substring test of the source is case-insensitive on letters             *)
(* (re.IGNORECASE, str.lower), so case-folded words lose nothing.          *)
(*                                                                         *)
(* A float is an integer number of tenths (1234.0 is 12340); the documents *)
(* enumerated carry at most one fractional digit.  None is the empty       *)
(* sequence and a present value v is <<v>>.                                *)
(***************************************************************************)
EXTENDS Integers, Sequences, FiniteSets, TLC

None == <<>>
Some(v) == <<v>>

Tenths(n) == n * 10

Abs(v) == IF v < 0 THEN 0 - v ELSE v

(***************************************************************************)
(* Character classes of the regular expressions.                           *)
(***************************************************************************)
Digits == {"0", "1", "2", "3", "4", "5", "6", "7", "8", "9"}

\* \s
WhiteSpace == {" ", "\n"}

\* [\d,]
DigitComma == Digits \cup {","}

\* [:\s]
ColonSpace == {":"} \cup WhiteSpace

\* [-\s]
HyphenSpace == {"-"} \cup WhiteSpace

\* [\$\(]
DollarParen == {"$", "("}

DigitVal(c) ==
    CASE c = "0" -> 0 [] c = "1" -> 1 [] c = "2" -> 2 [] c = "3" -> 3
      [] c = "4" -> 4 [] c = "5" -> 5 [] c = "6" -> 6 [] c = "7" -> 7
      [] c = "8" -> 8 [] c = "9" -> 9

(***************************************************************************)
(* Regular expressions: a pattern is a sequence of elements followed by    *)
(* the capture group ([\d,]+(?:\.\d+)?).  Elements are a literal word, a    *)
(* class repeated one or more times (greedy) and an optional class member. *)
(***************************************************************************)
Lit(w) == [k |-> "lit", w |-> w, cls |-> {}]
Plus(cls) == [k |-> "plus", w |-> "", cls |-> cls]
Opt(cls) == [k |-> "opt", w |-> "", cls |-> cls]

NoMatch == [ok |-> FALSE, g |-> <<>>]

\* the end (exclusive) of the longest run of members of cls starting at i
RECURSIVE RunEnd(_, _, _)
RunEnd(t, i, cls) ==
    IF i <= Len(t) /\ t[i] \in cls THEN RunEnd(t, i + 1, cls) ELSE i

\* ([\d,]+(?:\.\d+)?) at position i: the captured text, greedy
GroupAt(t, i) ==
    IF i > Len(t) \/ t[i] \notin DigitComma THEN NoMatch
    ELSE LET e == RunEnd(t, i, DigitComma)
             f == IF e + 1 <= Len(t) /\ t[e] = "." /\ t[e + 1] \in Digits
                  THEN RunEnd(t, e + 1, Digits) ELSE e
         IN  [ok |-> TRUE, g |-> SubSeq(t, i, f - 1)]

\* elements pat[j..] and then the group, at position i of t, with the
\* backtracking of re: a greedy repetition gives characters back, longest
\* first, and an optional element is tried present before absent
RECURSIVE MatchFrom(_, _, _, _)
RECURSIVE MatchPlus(_, _, _, _, _)
MatchFrom(pat, j, t, i) ==
    IF j > Len(pat) THEN GroupAt(t, i)
    ELSE LET e == pat[j] IN
         CASE e.k = "lit" ->
                 IF i <= Len(t) /\ t[i] = e.w
                 THEN MatchFrom(pat, j + 1, t, i + 1) ELSE NoMatch
           [] e.k = "plus" ->
                 MatchPlus(pat, j, t, i, RunEnd(t, i, e.cls))
           [] e.k = "opt" ->
                 LET with == IF i <= Len(t) /\ t[i] \in e.cls
                             THEN MatchFrom(pat, j + 1, t, i + 1) ELSE NoMatch
                 IN  IF with.ok THEN with ELSE MatchFrom(pat, j + 1, t, i)
MatchPlus(pat, j, t, i, end) ==
    IF end <= i THEN NoMatch
    ELSE LET m == MatchFrom(pat, j + 1, t, end)
         IN  IF m.ok THEN m ELSE MatchPlus(pat, j, t, i, end - 1)

\* re.search(pattern, text, re.IGNORECASE): the leftmost match, group(1)
RECURSIVE SearchFrom(_, _, _)
SearchFrom(pat, t, i) ==
    IF i > Len(t) THEN NoMatch
    ELSE LET m == MatchFrom(pat, 1, t, i)
         IN  IF m.ok THEN m ELSE SearchFrom(pat, t, i + 1)

re_search(pat, t) == SearchFrom(pat, t, 1)

\* value.replace(',', '')
RECURSIVE RemoveCommas(_)
RemoveCommas(s) ==
    IF s = <<>> THEN <<>>
    ELSE IF Head(s) = "," THEN RemoveCommas(Tail(s))
         ELSE <<Head(s)>> \o RemoveCommas(Tail(s))

RECURSIVE DigitsValue(_, _)
DigitsValue(s, acc) ==
    IF s = <<>> THEN acc ELSE DigitsValue(Tail(s), acc * 10 + DigitVal(Head(s)))

\* float(s) for s made of digits with at most one "." : a ValueError on the
\* empty string, else the value in tenths
ParseFloat(s) ==
    IF s = <<>> THEN [ok |-> FALSE, v |-> 0]
    ELSE LET d == RunEnd(s, 1, Digits)
             whole == DigitsValue(SubSeq(s, 1, d - 1), 0)
             frac == IF d < Len(s) THEN DigitVal(s[d + 1]) ELSE 0
         IN  [ok |-> TRUE, v |-> Tenths(whole) + frac]

float(value) == ParseFloat(RemoveCommas(value))


(***************************************************************************)
(* extract_financial_data: the label patterns, in their listed order.      *)
(***************************************************************************)
net_income_patterns ==
    << <<Lit("net"), Plus(WhiteSpace), Lit("income"),
         Plus(ColonSpace), Opt(DollarParen)>>,
       <<Lit("net"), Plus(WhiteSpace), Lit("earnings"),
         Plus(ColonSpace), Opt(DollarParen)>>,
       <<Lit("net"), Plus(WhiteSpace), Lit("income"), Plus(WhiteSpace),
         Lit("(loss)"), Plus(ColonSpace), Opt(DollarParen)>> >>

preferred_dividends_patterns ==
    << <<Lit("preferred"), Plus(WhiteSpace), Lit("stock"), Plus(WhiteSpace),
         Lit("dividends"), Plus(ColonSpace), Opt(DollarParen)>>,
       <<Lit("dividends"), Plus(WhiteSpace), Lit("on"), Plus(WhiteSpace),
         Lit("preferred"), Plus(WhiteSpace), Lit("stock"),
         Plus(ColonSpace), Opt(DollarParen)>> >>

shares_patterns ==
    << <<Lit("weighted"), Plus(HyphenSpace), Lit("average"), Plus(WhiteSpace),
         Lit("common"), Plus(WhiteSpace), Lit("shares"), Plus(WhiteSpace),
         Lit("outstanding"), Plus(ColonSpace)>>,
       <<Lit("weighted"), Plus(HyphenSpace), Lit("average"), Plus(WhiteSpace),
         Lit("shares"), Plus(WhiteSpace), Lit("outstanding"),
         Plus(ColonSpace)>>,
       <<Lit("average"), Plus(WhiteSpace), Lit("shares"), Plus(WhiteSpace),
         Lit("outstanding"), Plus(ColonSpace)>> >>

\* the regular expressions of the table pass; only numbers[0] of
\* re.findall is read, which is group(1) of the leftmost match
net_income_cell_pattern == <<Opt(DollarParen)>>

shares_cell_pattern == <<>>

\* a variant that gives up at the first pattern that matches
RECURSIVE SearchPatterns_StopAtMatch(_, _, _)
SearchPatterns_StopAtMatch(patterns, k, text) ==
    IF k > Len(patterns) THEN None
    ELSE LET match == re_search(patterns[k], text)
             parsed == float(match.g)
         IN  IF match.ok
             THEN (IF parsed.ok THEN Some(parsed.v) ELSE None)
             ELSE SearchPatterns_StopAtMatch(patterns, k + 1, text)

\* for pattern in patterns: match = re.search(...); if match: try
\* float(...) and break, except ValueError: continue.  The value found from
\* pattern k on, None when the loop ends without a break.
RECURSIVE SearchPatterns(_, _, _)
SearchPatterns(patterns, k, text) ==
    IF k > Len(patterns) THEN None
    ELSE LET match == re_search(patterns[k], text)
             parsed == float(match.g)
         IN  IF match.ok /\ parsed.ok THEN Some(parsed.v)
             ELSE SearchPatterns(patterns, k + 1, text)

SearchNetIncomeText(data, text) ==
    LET found == SearchPatterns(net_income_patterns, 1, text)
    IN  IF found = None THEN data ELSE [data EXCEPT !.net_income = found]

SearchPreferredDividendsText(data, text) ==
    LET found == SearchPatterns(preferred_dividends_patterns, 1, text)
    IN  IF found = None THEN data
        ELSE [data EXCEPT !.preferred_dividends = found]

\* a variant without the default
DefaultPreferredDividends_Skipped(data) == data

DefaultPreferredDividends(data) ==
    IF data.preferred_dividends = None
    THEN [data EXCEPT !.preferred_dividends = Some(0)]
    ELSE data

SearchSharesText(data, text) ==
    LET found == SearchPatterns(shares_patterns, 1, text)
    IN  IF found = None THEN data
        ELSE [data EXCEPT !.weighted_avg_shares = found]

(***************************************************************************)
(* The table pass.  A row is the sequence of its cells' texts.             *)
(***************************************************************************)
\* ' '.join(cells).lower()
RECURSIVE JoinCells(_)
JoinCells(cells) ==
    IF cells = <<>> THEN <<>>
    ELSE IF Len(cells) = 1 THEN cells[1]
         ELSE cells[1] \o <<" ">> \o JoinCells(Tail(cells))

\* needle in haystack
Contains(haystack, needle) ==
    \E i \in 1..(Len(haystack) - Len(needle) + 1) :
        SubSeq(haystack, i, i + Len(needle) - 1) = needle

IsNetIncomeRow(row_text) ==
    \/ Contains(row_text, <<"net", " ", "income">>)
    \/ Contains(row_text, <<"net", " ", "earnings">>)

IsSharesRow(row_text) ==
    /\ Contains(row_text, <<"weighted", " ", "average">>)
    /\ Contains(row_text, <<"shares">>)

SharesFloor == 1000

\* a variant that overwrites whatever is stored
NetIncomeReplaces_Always(value, stored) == TRUE

\* if data['net_income'] is None or abs(value) > abs(data['net_income'])
NetIncomeReplaces(value, stored) ==
    stored = None \/ Abs(value) > Abs(stored[1])

\* a variant with the floor itself accepted
SharesQualifies_AtFloor(value) == value >= Tenths(SharesFloor)

\* if value > 1000
SharesQualifies(value) == value > Tenths(SharesFloor)

\* a variant that reads a figure in parentheses as a negative one
RECURSIVE NetIncomeCells_ParenNegates(_, _, _)
NetIncomeCells_ParenNegates(cells, k, stored) ==
    IF k > Len(cells) THEN stored
    ELSE LET numbers == re_search(net_income_cell_pattern, cells[k])
             parsed == float(numbers.g)
             value == IF Contains(cells[k], <<"(">>)
                      THEN 0 - parsed.v ELSE parsed.v
         IN  IF numbers.ok /\ parsed.ok /\ NetIncomeReplaces(value, stored)
             THEN NetIncomeCells_ParenNegates(cells, k + 1, Some(value))
             ELSE NetIncomeCells_ParenNegates(cells, k + 1, stored)

\* for cell in cells: the net income stored after cells k.. of a row
RECURSIVE NetIncomeCells(_, _, _)
NetIncomeCells(cells, k, stored) ==
    IF k > Len(cells) THEN stored
    ELSE LET numbers == re_search(net_income_cell_pattern, cells[k])
             parsed == float(numbers.g)
         IN  IF numbers.ok /\ parsed.ok /\ NetIncomeReplaces(parsed.v, stored)
             THEN NetIncomeCells(cells, k + 1, Some(parsed.v))
             ELSE NetIncomeCells(cells, k + 1, stored)

\* a variant that keeps a value already stored
RECURSIVE SharesCells_KeepStored(_, _, _)
SharesCells_KeepStored(cells, k, stored) ==
    IF k > Len(cells) THEN stored
    ELSE LET numbers == re_search(shares_cell_pattern, cells[k])
             parsed == float(numbers.g)
         IN  IF numbers.ok /\ parsed.ok /\ SharesQualifies(parsed.v)
                /\ stored = None
             THEN SharesCells_KeepStored(cells, k + 1, Some(parsed.v))
             ELSE SharesCells_KeepStored(cells, k + 1, stored)

RECURSIVE SharesCells(_, _, _)
SharesCells(cells, k, stored) ==
    IF k > Len(cells) THEN stored
    ELSE LET numbers == re_search(shares_cell_pattern, cells[k])
             parsed == float(numbers.g)
         IN  IF numbers.ok /\ parsed.ok /\ SharesQualifies(parsed.v)
             THEN SharesCells(cells, k + 1, Some(parsed.v))
             ELSE SharesCells(cells, k + 1, stored)

\* the body of "for row in rows"
TableRow(data, cells) ==
    LET row_text == JoinCells(cells)
        ni == IF IsNetIncomeRow(row_text)
              THEN NetIncomeCells(cells, 1, data.net_income)
              ELSE data.net_income
        sh == IF IsSharesRow(row_text)
              THEN SharesCells(cells, 1, data.weighted_avg_shares)
              ELSE data.weighted_avg_shares
    IN  [data EXCEPT !.net_income = ni, !.weighted_avg_shares = sh]

(***************************************************************************)
(* A document (the parsed page): the text before its tables, its tables    *)
(* and the white space the markup leaves after each cell.                  *)
(***************************************************************************)
RECURSIVE Concat(_)
Concat(seqs) ==
    IF seqs = <<>> THEN <<>> ELSE Head(seqs) \o Concat(Tail(seqs))

\* for table in tables: for row in table.find_all('tr'): the rows visited
AllRows(tables) == Concat(tables)

RECURSIVE CellsText(_, _)
CellsText(cells, sep) ==
    IF cells = <<>> THEN <<>>
    ELSE Head(cells) \o sep \o CellsText(Tail(cells), sep)

\* soup.get_text(): every string of the page in document order
get_text(soup) ==
    soup.body \o CellsText(Concat(AllRows(soup.tables)), soup.sep)

find_all_tables(soup) == soup.tables

EmptyData ==
    [net_income |-> None, preferred_dividends |-> None,
     weighted_avg_shares |-> None]

RECURSIVE TablePass(_, _, _)
TablePass(data, rows, k) ==
    IF k > Len(rows) THEN data
    ELSE TablePass(TableRow(data, rows[k]), rows, k + 1)

TextPass(text) ==
    SearchSharesText(
        DefaultPreferredDividends(
            SearchPreferredDividendsText(
                SearchNetIncomeText(EmptyData, text), text)), text)

\* the record extract_financial_data returns for a page
extract_financial_data(soup) ==
    TablePass(TextPass(get_text(soup)), AllRows(find_all_tables(soup)), 1)

(***************************************************************************)
(* The documents enumerated.                                               *)
(***************************************************************************)
MaxSegments == 2
MaxRows == 2

SeqsUpTo(S, n) == UNION {[1..k -> S] : k \in 0..n}

\* labelled figures of running text, each closed by a space
Segments ==
    { <<"net", " ", "income", " ", "5", " ">>,
      <<"net", " ", "earnings", ":", " ", "$", "7", " ">>,
      <<"net", " ", "income", " ", "(loss)", " ", "(", "9", ")", " ">>,
      <<"net", "\n", "income", " ", ",", " ">>,
      <<"preferred", " ", "stock", " ", "dividends", " ", "3", " ">>,
      <<"dividends", " ", "on", " ", "preferred", " ", "stock", ":", "$",
        "4", " ">>,
      <<"preferred", " ", "stock", " ", "dividends", " ", ",", " ">>,
      <<"weighted", "-", "average", " ", "common", " ", "shares", " ",
        "outstanding", " ", "2", ",", "0", "0", "0", " ">>,
      <<"weighted", " ", "average", " ", "shares", " ", "outstanding", " ",
        "8", "0", "0", " ">>,
      <<"average", " ", "shares", " ", "outstanding", ":", "6", ".", "5",
        " ">>,
      <<"weighted", "-", "average", " ", "common", " ", "shares", " ",
        "outstanding", " ", ",", " ">> }

\* rows of financial tables, each the sequence of its cells
Rows ==
    { << <<"net">>, <<"income">>, <<"$", "5">>,
         <<"(", "2", ",", "0", "0", "0", ")">> >>,
      << <<"net", " ", "earnings">>, <<",">>,
         <<"3", ",", "0", "0", "0", ".", "5">> >>,
      << <<"weighted", " ", "average", " ", "shares">>,
         <<"1", ",", "0", "0", "1">>, <<"1", ",", "0", "0", "0">> >>,
      << <<"weighted", " ", "average">>,
         <<"shares", " ", "2", ",", "0", "0", "0">>,
         <<"3", ",", "0", "0", "0">>, <<"7", " ", "3", "0", "0", "0">> >>,
      << <<"net", " ", "income", " ", "per", " ", "weighted", " ", "average",
           " ", "shares">>,
         <<"1", ",", "5", "0", "0">>, <<"4">> >>,
      << <<"weighted", "-", "average", " ", "shares">>,
         <<"9", ",", "0", "0", "0">> >> }

Bodies ==
    { <<>>,
      <<"net", " ", "income", ":", " ", "$", "2", ",", "5", "0", "0", " ",
        "weighted", " ", "average", " ", "shares", " ", "outstanding", " ",
        "8", "0", "0", " ">> }

\* a page of running text, with no table or one one-row table
TextDocuments ==
    { [body |-> Concat(segs), tables |-> tables, sep |-> <<"\n">>] :
        segs \in SeqsUpTo(Segments, MaxSegments),
        tables \in { <<>>,
                     << << << <<"net", " ", "earnings">>,
                              <<"1", "2">> >> >> >> } }

\* a page of two tables (either may have no row) after a short text
TwoTables ==
    UNION { { <<SubSeq(rows, 1, cut), SubSeq(rows, cut + 1, Len(rows))>> :
                cut \in 0..Len(rows) } :
            rows \in SeqsUpTo(Rows, MaxRows) }

TableDocuments ==
    { [body |-> body, tables |-> tables, sep |-> sep] :
        body \in Bodies, tables \in TwoTables, sep \in { <<>>, <<"\n">> } }

Documents == TextDocuments \cup TableDocuments

(***************************************************************************)
(* Dates.  A date string 'YYYY-MM-DD' is the triple                        *)
(* <<year, month, day>> of its fields; a datetime.date is its day number,  *)
(* counted from 2024-01-01 as day 1.                                       *)
(***************************************************************************)
IsLeapYear(y) == (y % 4 = 0 /\ y % 100 # 0) \/ y % 400 = 0

DaysInMonth(y, m) ==
    CASE m \in {1, 3, 5, 7, 8, 10, 12} -> 31
      [] m \in {4, 6, 9, 11} -> 30
      [] m = 2 -> IF IsLeapYear(y) THEN 29 ELSE 28

RECURSIVE DaysBeforeMonth(_, _)
DaysBeforeMonth(y, m) ==
    IF m <= 1 THEN 0 ELSE DaysBeforeMonth(y, m - 1) + DaysInMonth(y, m - 1)

RECURSIVE DaysBeforeYear(_)
DaysBeforeYear(y) ==
    IF y <= 2024 THEN 0
    ELSE DaysBeforeYear(y - 1) + (IF IsLeapYear(y - 1) THEN 366 ELSE 365)

\* datetime.date(y, m, d)
Date(y, m, d) == DaysBeforeYear(y) + DaysBeforeMonth(y, m) + d

\* pd.to_datetime(filing_date_str).date(): ok is FALSE when it raises
to_datetime_date(filing_date_str) ==
    LET y == filing_date_str[1]
        m == filing_date_str[2]
        d == filing_date_str[3]
    IN  IF m \in 1..12 /\ d >= 1 /\ d <= DaysInMonth(y, m)
        THEN [ok |-> TRUE, v |-> Date(y, m, d)]
        ELSE [ok |-> FALSE, v |-> 0]

(***************************************************************************)
(* State.                                                                  *)
(***************************************************************************)
VARIABLES
    soup,          \* the page extract_financial_data has loaded
    text_content,  \* soup.get_text()
    data,          \* the data dictionary of extract_financial_data
    row,           \* the next row of the table pass
    pc,            \* where extract_financial_data stands
    calls,         \* the calls of extract_financial_data that have returned,
                   \* in order: the page of each and the record it returned
    price_data,    \* scrape_amzn_prices: the price history, ascending by date
    csv_file,      \* amzn_10q_data.csv: None when absent, else <<its rows>>
    filing_data,   \* scrape_amzn_prices: the rows read from the file
    close_prices,  \* scrape_amzn_prices: the prices matched so far
    idx,           \* scrape_amzn_prices: the row of iterrows() to match next
    apc,           \* where scrape_amzn_prices stands
    driver,        \* self.driver: "none", "open" or "quit"
    filing_links,  \* scrape: the filing URLs found
    i,             \* scrape: the filing of filing_links to process next
    results,       \* self.results
    now,           \* the date of datetime.now()
    spc            \* where scrape stands

extract_vars == <<soup, text_content, data, row, pc, calls>>

align_vars == <<price_data, csv_file, filing_data, close_prices, idx, apc>>

scrape_vars == <<driver, filing_links, i, results, now, spc>>

vars == <<extract_vars, align_vars, scrape_vars>>

NoDocument == [body |-> <<>>, tables |-> <<>>, sep |-> <<>>]

\* extract_financial_data is not running
ExtractIdle ==
    /\ soup = NoDocument
    /\ text_content = <<>>
    /\ data = EmptyData
    /\ row = 1
    /\ pc = "idle"
    /\ calls = <<>>

\* the day the scraper is started
StartDay == Date(2024, 2, 29)

\* scrape is not running
ScrapeIdle ==
    /\ driver = "none"
    /\ filing_links = <<>>
    /\ i = 1
    /\ results = <<>>
    /\ now = StartDay
    /\ spc = "idle"

\* scrape_amzn_prices is not running and the file does not exist
AlignIdle ==
    /\ price_data = <<>>
    /\ csv_file = None
    /\ filing_data = <<>>
    /\ close_prices = <<>>
    /\ idx = 1
    /\ apc = "idle"

(***************************************************************************)
(* extract_financial_data, statement by statement.                         *)
(***************************************************************************)
InitExtract ==
    /\ soup \in Documents
    /\ text_content = <<>>
    /\ data = EmptyData
    /\ row = 1
    /\ pc = "load"
    /\ calls = <<>>
    /\ AlignIdle
    /\ ScrapeIdle

\* a variant that starts from the record the previous call left
LoadDocument_KeepData ==
    /\ pc = "load"
    /\ text_content' = get_text(soup)
    /\ data' = data
    /\ pc' = "net_income"
    /\ UNCHANGED <<soup, row, calls>>
    /\ UNCHANGED <<align_vars, scrape_vars>>

\* lines 265-280
LoadDocument ==
    /\ pc = "load"
    /\ text_content' = get_text(soup)
    /\ data' = EmptyData
    /\ pc' = "net_income"
    /\ UNCHANGED <<soup, row, calls>>
    /\ UNCHANGED <<align_vars, scrape_vars>>

\* lines 304-313
SearchNetIncome ==
    /\ pc = "net_income"
    /\ data' = SearchNetIncomeText(data, text_content)
    /\ pc' = "preferred_dividends"
    /\ UNCHANGED <<soup, text_content, row, calls>>
    /\ UNCHANGED <<align_vars, scrape_vars>>

\* lines 316-325
SearchPreferredDividends ==
    /\ pc = "preferred_dividends"
    /\ data' = SearchPreferredDividendsText(data, text_content)
    /\ pc' = "default_dividends"
    /\ UNCHANGED <<soup, text_content, row, calls>>
    /\ UNCHANGED <<align_vars, scrape_vars>>

\* lines 328-330
DefaultDividends ==
    /\ pc = "default_dividends"
    /\ data' = DefaultPreferredDividends(data)
    /\ pc' = "shares"
    /\ UNCHANGED <<soup, text_content, row, calls>>
    /\ UNCHANGED <<align_vars, scrape_vars>>

\* lines 333-345
SearchShares ==
    /\ pc = "shares"
    /\ data' = SearchSharesText(data, text_content)
    /\ row' = 1
    /\ pc' = "tables"
    /\ UNCHANGED <<soup, text_content, calls>>
    /\ UNCHANGED <<align_vars, scrape_vars>>

\* lines 350-379, one row
ScanTableRow ==
    /\ pc = "tables"
    /\ row <= Len(AllRows(find_all_tables(soup)))
    /\ data' = TableRow(data, AllRows(find_all_tables(soup))[row])
    /\ row' = row + 1
    /\ UNCHANGED <<soup, text_content, pc, calls>>
    /\ UNCHANGED <<align_vars, scrape_vars>>

\* line 381
ReturnData ==
    /\ pc = "tables"
    /\ row > Len(AllRows(find_all_tables(soup)))
    /\ pc' = "returned"
    /\ UNCHANGED <<soup, text_content, data, row, calls>>
    /\ UNCHANGED <<align_vars, scrape_vars>>

NextExtract ==
    \/ LoadDocument
    \/ SearchNetIncome
    \/ SearchPreferredDividends
    \/ DefaultDividends
    \/ SearchShares
    \/ ScanTableRow
    \/ ReturnData

SpecExtract == InitExtract /\ [][NextExtract]_vars

(***************************************************************************)
(* extract_financial_data called again and again, as the loop of scrape    *)
(* calls it once per filing.  The caller keeps what each call returned;    *)
(* the locals of a call that has returned stay as it left them until the   *)
(* code of the next call assigns them.                                     *)
(***************************************************************************)
MaxCalls == 2

\* the pages served to the calls: the two pages of every fact and of a
\* parenthesised table figure, a page with no figure at all, a page whose
\* table figure is smaller than its text figure, and a page of shares only
RepeatDocuments ==
    { [body |-> <<"net", " ", "income", " ", "$", "1", ",", "2", "3", "4",
                  " ", "weighted", " ", "average", " ", "shares", " ",
                  "outstanding", " ", "1", "0", ",", "5", "0", "0">>,
       tables |-> <<>>, sep |-> <<>>],
      [body |-> <<"preferred", " ", "stock", " ", "dividends", " ", "3", " ">>,
       tables |-> << << << <<"net", " ", "earnings">>,
                           <<"(", "2", ",", "0", "0", "0", ")">> >> >> >>,
       sep |-> <<"\n">>],
      [body |-> <<"total", " ", "assets", " ">>,
       tables |-> <<>>, sep |-> <<"\n">>],
      [body |-> <<"net", " ", "income", ":", " ", "9", "0", "0", " ">>,
       tables |-> << << << <<"net", " ", "income">>, <<"$", "5">> >> >> >>,
       sep |-> <<"\n">>],
      [body |-> <<>>,
       tables |-> << << << <<"weighted", " ", "average", " ", "shares">>,
                           <<"3", ",", "0", "0", "0">> >> >> >>,
       sep |-> <<>>] }

InitRepeat ==
    /\ soup \in RepeatDocuments
    /\ text_content = <<>>
    /\ data = EmptyData
    /\ row = 1
    /\ pc = "load"
    /\ calls = <<>>
    /\ AlignIdle
    /\ ScrapeIdle

\* line 448 inside the loop of line 432: the caller takes the record the
\* call returned and calls extract_financial_data for the next page
ExtractAgain ==
    /\ pc = "returned"
    /\ Len(calls) < MaxCalls
    /\ calls' = Append(calls, [document |-> soup, data |-> data])
    /\ \E page \in RepeatDocuments : soup' = page
    /\ pc' = "load"
    /\ UNCHANGED <<text_content, data, row>>
    /\ UNCHANGED <<align_vars, scrape_vars>>

NextRepeat ==
    \/ LoadDocument
    \/ SearchNetIncome
    \/ SearchPreferredDividends
    \/ DefaultDividends
    \/ SearchShares
    \/ ScanTableRow
    \/ ReturnData
    \/ ExtractAgain

SpecRepeat == InitRepeat /\ [][NextRepeat]_vars

(***************************************************************************)
(* scrape_amzn_prices.                                                     *)
(***************************************************************************)
\* price_data.index
Index(prices) == [k \in 1..Len(prices) |-> prices[k].date]

\* filing_date in price_data.index
InIndex(prices, date) == \E k \in 1..Len(prices) : prices[k].date = date

\* price_data.loc[date, 'Close']
Loc(prices, date) ==
    prices[CHOOSE k \in 1..Len(prices) : prices[k].date = date].Close

\* a variant that always takes the first trading day after the filing date
ClosePriceFor_NextDayOnly(filing_date, prices) ==
    LET Later(d) == d > filing_date
        available_dates == SelectSeq(Index(prices), Later)
    IN  IF Len(available_dates) > 0
        THEN Some(Loc(prices, available_dates[1]))
        ELSE None

\* a variant that takes the nearest trading day, before or after
ClosePriceFor_Nearest(filing_date, prices) ==
    LET OnOrAfter(d) == d >= filing_date
        OnOrBefore(d) == d <= filing_date
        after == SelectSeq(Index(prices), OnOrAfter)
        before == SelectSeq(Index(prices), OnOrBefore)
    IN  IF InIndex(prices, filing_date) THEN Some(Loc(prices, filing_date))
        ELSE IF Len(before) > 0
                /\ (Len(after) = 0
                    \/ filing_date - before[Len(before)]
                           < after[1] - filing_date)
             THEN Some(Loc(prices, before[Len(before)]))
             ELSE IF Len(after) > 0 THEN Some(Loc(prices, after[1]))
                  ELSE None

\* lines 64-88: the close price matched to a filing date
ClosePriceFor(filing_date, prices) ==
    LET OnOrAfter(d) == d >= filing_date
        OnOrBefore(d) == d <= filing_date
    IN  IF InIndex(prices, filing_date)
        THEN Some(Loc(prices, filing_date))
        ELSE LET available_dates == SelectSeq(Index(prices), OnOrAfter)
             IN  IF Len(available_dates) > 0
                 THEN Some(Loc(prices, available_dates[1]))
                 ELSE LET previous_dates ==
                              SelectSeq(Index(prices), OnOrBefore)
                      IN  IF Len(previous_dates) > 0
                          THEN Some(Loc(prices,
                                        previous_dates[Len(previous_dates)]))
                          ELSE None

\* a variant that appends nothing for a date that does not parse
MatchFilingDate_DropUnparsed(prices, matched, filing_date_str) ==
    LET filing_date == to_datetime_date(filing_date_str)
    IN  IF ~filing_date.ok THEN matched
        ELSE Append(matched, ClosePriceFor(filing_date.v, prices))

\* lines 54-88: close_prices after one row of the loop
MatchFilingDate(prices, matched, filing_date_str) ==
    LET filing_date == to_datetime_date(filing_date_str)
    IN  IF ~filing_date.ok THEN Append(matched, None)
        ELSE Append(matched, ClosePriceFor(filing_date.v, prices))

\* filing_data['close_price'] = close_prices
WithColumn(rows, name, column) ==
    [k \in 1..Len(rows) |->
        [f \in DOMAIN rows[k] \cup {name} |->
            IF f = name THEN column[k] ELSE rows[k][f]]]

MaxPoints == 2
MaxRecords == 2

TradingDays ==
    {Date(2024, 1, 30), Date(2024, 2, 1), Date(2024, 2, 2), Date(2024, 3, 1)}

Closes == {100, 102}

\* what ticker.history can return: ascending dates, one row a date
Histories ==
    { h \in SeqsUpTo([date : TradingDays, Close : Closes], MaxPoints) :
        \A k \in 1..(Len(h) - 1) : h[k].date < h[k + 1].date }

\* the filing_date column: dates, and two strings that are no date
FilingDateStrings ==
    { <<2024, 1, 31>>, <<2024, 2, 1>>, <<2024, 2, 3>>, <<2024, 3, 4>>,
      <<2024, 2, 30>>, <<2023, 2, 29>> }

\* the files display_results can have left: no file, or at least one row
CsvFiles ==
    {None} \cup
    { Some(rows) :
        rows \in SeqsUpTo([filing_date : FilingDateStrings], MaxRecords)
                 \ {<<>>} }

InitAlign ==
    /\ ExtractIdle
    /\ ScrapeIdle
    /\ price_data = <<>>
    /\ csv_file \in CsvFiles
    /\ filing_data = <<>>
    /\ close_prices = <<>>
    /\ idx = 1
    /\ apc = "fetch"

\* lines 21-37
FetchPrices ==
    /\ apc = "fetch"
    /\ \E history \in Histories :
          /\ price_data' = history
          /\ apc' = IF history = <<>> THEN "no_price_data" ELSE "read_csv"
    /\ UNCHANGED <<csv_file, filing_data, close_prices, idx>>
    /\ UNCHANGED <<extract_vars, scrape_vars>>

\* lines 41-51
ReadCsv ==
    /\ apc = "read_csv"
    /\ IF csv_file = None
       THEN /\ apc' = "no_csv"
            /\ UNCHANGED <<filing_data, close_prices, idx>>
       ELSE /\ filing_data' = csv_file[1]
            /\ close_prices' = <<>>
            /\ idx' = 1
            /\ apc' = "match"
    /\ UNCHANGED <<price_data, csv_file>>
    /\ UNCHANGED <<extract_vars, scrape_vars>>

\* lines 53-88, one row
MatchRow ==
    /\ apc = "match"
    /\ idx <= Len(filing_data)
    /\ close_prices' =
           MatchFilingDate(price_data, close_prices,
                           filing_data[idx].filing_date)
    /\ idx' = idx + 1
    /\ UNCHANGED <<price_data, csv_file, filing_data, apc>>
    /\ UNCHANGED <<extract_vars, scrape_vars>>

\* lines 91-104
SaveWithPrices ==
    /\ apc = "match"
    /\ idx > Len(filing_data)
    /\ filing_data' = WithColumn(filing_data, "close_price", close_prices)
    /\ csv_file' = Some(filing_data')
    /\ apc' = "done"
    /\ UNCHANGED <<price_data, close_prices, idx>>
    /\ UNCHANGED <<extract_vars, scrape_vars>>

NextAlign ==
    \/ FetchPrices
    \/ ReadCsv
    \/ MatchRow
    \/ SaveWithPrices

SpecAlign == InitAlign /\ [][NextAlign]_vars

(***************************************************************************)
(* AMZN10QScraper.scrape and display_results.  A URL is a sequence of      *)
(* atoms, ".htm" and "/Archives/edgar/data/" among them.                   *)
(***************************************************************************)
num_filings == 3

MaxTicks == 1

\* the links get_recent_10q_filings accepts: document links and filing
\* index pages
FilingUrls ==
    { <<"/Archives/edgar/data/", "q1", ".htm">>,
      <<"/Archives/edgar/data/", "q2", ".htm">>,
      <<"/Archives/edgar/data/", "q3-index">> }

\* the link get_filing_document_url finds on a filing index page
IndexDocumentUrl == <<"/Archives/edgar/data/", "q3", ".htm">>

\* filing_links: no URL twice, at most num_filings of them
LinkLists ==
    { l \in SeqsUpTo(FilingUrls, num_filings) :
        \A j, k \in 1..Len(l) : j # k => l[j] # l[k] }

\* the pages a document URL can serve
Pages ==
    { [body |-> <<"net", " ", "income", " ", "$", "1", ",", "2", "3", "4",
                  " ", "weighted", " ", "average", " ", "shares", " ",
                  "outstanding", " ", "1", "0", ",", "5", "0", "0">>,
       tables |-> <<>>, sep |-> <<>>],
      [body |-> <<"preferred", " ", "stock", " ", "dividends", " ", "3", " ">>,
       tables |-> << << << <<"net", " ", "earnings">>,
                           <<"(", "2", ",", "0", "0", "0", ")">> >> >> >>,
       sep |-> <<"\n">>] }

\* '.htm' in filing_url.lower() or '.html' in filing_url.lower()
IsDocumentLink(filing_url) ==
    Contains(filing_url, <<".htm">>) \/ Contains(filing_url, <<".html">>)

\* datetime.now().strftime('%Y-%m-%d')
strftime(date) ==
    CHOOSE s \in {2024} \X (1..12) \X (1..31) :
        to_datetime_date(s).ok /\ to_datetime_date(s).v = date

\* a variant that dates a record by its filing: the quarter its link names
FilingResult_DateOfFiling(page, filing_url, document_url, date) ==
    LET extracted == extract_financial_data(page)
    IN  [net_income |-> extracted.net_income,
         preferred_dividends |-> extracted.preferred_dividends,
         weighted_avg_shares |-> extracted.weighted_avg_shares,
         filing_url |-> filing_url,
         document_url |-> document_url,
         filing_date |-> IF Contains(document_url, <<"q1">>)
                         THEN <<2024, 1, 31>> ELSE <<2024, 2, 1>>]

\* lines 448-451: the record appended for a filing
FilingResult(page, filing_url, document_url, date) ==
    LET extracted == extract_financial_data(page)
    IN  [net_income |-> extracted.net_income,
         preferred_dividends |-> extracted.preferred_dividends,
         weighted_avg_shares |-> extracted.weighted_avg_shares,
         filing_url |-> filing_url,
         document_url |-> document_url,
         filing_date |-> strftime(date)]

InitScrape ==
    /\ ExtractIdle
    /\ AlignIdle
    /\ driver = "none"
    /\ filing_links = <<>>
    /\ i = 1
    /\ results = <<>>
    /\ now = StartDay
    /\ spc = "setup"

\* line 395: setup_driver returns, or raises out of scrape, before the
\* browser is started (lines 65-107) or after it (line 108)
SetupDriver ==
    /\ spc = "setup"
    /\ \/ driver' = "open" /\ spc' = "get_filings"
       \/ driver' = driver /\ spc' = "raised"
       \/ driver' = "open" /\ spc' = "raised"
    /\ UNCHANGED <<filing_links, i, results, now>>
    /\ UNCHANGED <<extract_vars, align_vars>>

\* line 399: get_recent_10q_filings returns its links, or its driver.get
\* (line 134) raises
GetRecentFilings ==
    /\ spc = "get_filings"
    /\ \/ /\ spc' = "except"
          /\ UNCHANGED filing_links
       \/ \E links \in LinkLists :
             /\ filing_links' = links
             /\ spc' = IF links = <<>> THEN "alternative" ELSE "loop"
    /\ i' = 1
    /\ UNCHANGED <<driver, results, now>>
    /\ UNCHANGED <<extract_vars, align_vars>>

\* a variant whose early return of line 429 leaves scrape at once
AlternativeSearch_ReturnsAtOnce ==
    /\ spc = "alternative"
    /\ \/ /\ spc' = "except"
          /\ UNCHANGED filing_links
       \/ \E links \in LinkLists :
             /\ filing_links' = links
             /\ spc' = IF links = <<>> THEN "returned" ELSE "loop"
    /\ UNCHANGED <<driver, i, results, now>>
    /\ UNCHANGED <<extract_vars, align_vars>>

\* lines 401-429: the search by CIK; its driver.get (line 407) can raise, an
\* error while reading the links is caught and keeps those appended so far
AlternativeSearch ==
    /\ spc = "alternative"
    /\ \/ /\ spc' = "except"
          /\ UNCHANGED filing_links
       \/ \E links \in LinkLists :
             /\ filing_links' = links
             /\ spc' = IF links = <<>> THEN "finally" ELSE "loop"
    /\ UNCHANGED <<driver, i, results, now>>
    /\ UNCHANGED <<extract_vars, align_vars>>

\* lines 432-456, one filing: the document URL is the link itself or what
\* get_filing_document_url returns (None, a URL, or its driver.get raises);
\* extract_financial_data returns the record of the page served, or its
\* driver.get raises
ProcessFiling ==
    /\ spc = "loop"
    /\ i <= Len(filing_links)
    /\ LET filing_url == filing_links[i]
           Extract(document_url) ==
               \/ /\ spc' = "except"
                  /\ UNCHANGED <<results, i>>
               \/ \E page \in Pages :
                     /\ results' = Append(results,
                            FilingResult(page, filing_url, document_url, now))
                     /\ i' = i + 1
                     /\ spc' = spc
       IN  IF IsDocumentLink(filing_url)
           THEN Extract(filing_url)
           ELSE \/ /\ spc' = "except"
                   /\ UNCHANGED <<results, i>>
                \/ /\ i' = i + 1
                   /\ UNCHANGED <<results, spc>>
                \/ Extract(IndexDocumentUrl)
    /\ UNCHANGED <<driver, filing_links, now>>
    /\ UNCHANGED <<extract_vars, align_vars>>

\* the for loop of line 432 is over
LoopDone ==
    /\ spc = "loop"
    /\ i > Len(filing_links)
    /\ spc' = "finally"
    /\ UNCHANGED <<driver, filing_links, i, results, now>>
    /\ UNCHANGED <<extract_vars, align_vars>>

\* lines 458-461
HandleException ==
    /\ spc = "except"
    /\ spc' = "finally"
    /\ UNCHANGED <<driver, filing_links, i, results, now>>
    /\ UNCHANGED <<extract_vars, align_vars>>

\* lines 463-470
Finally ==
    /\ spc = "finally"
    /\ driver' = IF driver # "none" THEN "quit" ELSE driver
    /\ spc' = "returned"
    /\ UNCHANGED <<filing_links, i, results, now>>
    /\ UNCHANGED <<extract_vars, align_vars>>

\* midnight passes while scrape runs
Tick ==
    /\ spc \in {"get_filings", "alternative", "loop", "except", "finally"}
    /\ now < StartDay + MaxTicks
    /\ now' = now + 1
    /\ UNCHANGED <<driver, filing_links, i, results, spc>>
    /\ UNCHANGED <<extract_vars, align_vars>>

\* lines 472-490
DisplayResults ==
    /\ spc = "returned"
    /\ csv_file' = IF results = <<>> THEN csv_file ELSE Some(results)
    /\ spc' = "displayed"
    /\ UNCHANGED <<price_data, filing_data, close_prices, idx, apc>>
    /\ UNCHANGED <<driver, filing_links, i, results, now>>
    /\ UNCHANGED extract_vars

NextScrape ==
    \/ SetupDriver
    \/ GetRecentFilings
    \/ AlternativeSearch
    \/ ProcessFiling
    \/ LoopDone
    \/ HandleException
    \/ Finally
    \/ Tick
    \/ DisplayResults

SpecScrape == InitScrape /\ [][NextScrape]_vars

(***************************************************************************)
(* The two scripts one after the other: scrape_10q.py writes               *)
(* amzn_10q_data.csv and scrape_price.py then reads it.                    *)
(***************************************************************************)
InitPipeline == InitScrape

\* scrape_price.py lines 107-108, run once scrape_10q.py has ended
RunPriceScript ==
    /\ spc = "displayed"
    /\ apc = "idle"
    /\ apc' = "fetch"
    /\ UNCHANGED <<price_data, csv_file, filing_data, close_prices, idx>>
    /\ UNCHANGED <<extract_vars, scrape_vars>>

NextPipeline ==
    \/ SetupDriver
    \/ GetRecentFilings
    \/ AlternativeSearch
    \/ ProcessFiling
    \/ LoopDone
    \/ HandleException
    \/ Finally
    \/ Tick
    \/ DisplayResults
    \/ RunPriceScript
    \/ FetchPrices
    \/ ReadCsv
    \/ MatchRow
    \/ SaveWithPrices

SpecPipeline == InitPipeline /\ [][NextPipeline]_vars

\* a statement of scrape: the interpreter runs the next statement of the
\* one thread, and every call it makes returns or raises
ScrapeStep ==
    \/ SetupDriver
    \/ GetRecentFilings
    \/ AlternativeSearch
    \/ ProcessFiling
    \/ LoopDone
    \/ HandleException
    \/ Finally

\* scrape under an interpreter that does not stop between statements
SpecScrapeLive == SpecScrape /\ WF_vars(ScrapeStep)

(***************************************************************************)
(* Properties of extract_financial_data.                                   *)
(***************************************************************************)
\* whether a pattern's leftmost match parses, and the value it gives
PatternParses(pattern, text) ==
    re_search(pattern, text).ok /\ float(re_search(pattern, text).g).ok

PatternValue(pattern, text) == float(re_search(pattern, text).g).v

\* the value of the lowest-numbered pattern whose leftmost match parses
PriorityValue(patterns, text) ==
    LET good == {k \in 1..Len(patterns) : PatternParses(patterns[k], text)}
    IN  IF good = {} THEN None
        ELSE Some(PatternValue(
                 patterns[CHOOSE k \in good : \A j \in good : k <= j], text))

\* the parsed first numerals of the cells of a row, in cell order
RECURSIVE CellValues(_, _)
CellValues(pattern, cells) ==
    IF cells = <<>> THEN <<>>
    ELSE LET m == re_search(pattern, Head(cells))
         IN  (IF m.ok /\ float(m.g).ok THEN <<float(m.g).v>> ELSE <<>>)
             \o CellValues(pattern, Tail(cells))

\* the net income candidates of the first n rows, in table order
RECURSIVE NetIncomeCandidates(_, _)
NetIncomeCandidates(rows, n) ==
    IF n = 0 THEN <<>>
    ELSE NetIncomeCandidates(rows, n - 1)
         \o (IF IsNetIncomeRow(JoinCells(rows[n]))
             THEN CellValues(net_income_cell_pattern, rows[n]) ELSE <<>>)

\* the shares candidates of the first n rows, in table order
RECURSIVE SharesCandidates(_, _)
SharesCandidates(rows, n) ==
    IF n = 0 THEN <<>>
    ELSE SharesCandidates(rows, n - 1)
         \o (IF IsSharesRow(JoinCells(rows[n]))
             THEN CellValues(shares_cell_pattern, rows[n]) ELSE <<>>)

\* the earliest value of largest magnitude, None for no value
LargestMagnitude(values) ==
    IF values = <<>> THEN None
    ELSE Some(values[CHOOSE k \in 1..Len(values) :
                  /\ \A j \in 1..Len(values) : Abs(values[j]) <= Abs(values[k])
                  /\ \A j \in 1..(k - 1) : Abs(values[j]) < Abs(values[k])])

ScannedRows == AllRows(find_all_tables(soup))

Tier1NetIncome == SearchPatterns(net_income_patterns, 1, text_content)

Tier1Shares == SearchPatterns(shares_patterns, 1, text_content)

\* C1: once the text pass is over, net_income is the earliest value of
\* largest magnitude among the Tier-1 value and the candidates of the rows
\* scanned so far (the first numeral of each cell of each net income row), so
\* a candidate of no larger magnitude than the stored value changes nothing;
\* on return this covers every row of every table.
C1_NetIncomeLargestMagnitude ==
    pc \in {"tables", "returned"} =>
        data.net_income =
            LargestMagnitude(Tier1NetIncome
                             \o NetIncomeCandidates(ScannedRows, row - 1))

C1_Witness ==
    /\ pc = "returned"
    /\ Tier1NetIncome # None
    /\ LET c == NetIncomeCandidates(ScannedRows, Len(ScannedRows))
       IN  /\ \E k \in 1..Len(c) : Abs(c[k]) > Abs(Tier1NetIncome[1])
           /\ \E k \in 1..Len(c) :
                 /\ Abs(c[k]) <= Abs(data.net_income[1])
                 /\ c[k] # data.net_income[1]
    /\ data.net_income # Tier1NetIncome

\* the qualifying shares candidates (above the floor) among values
RECURSIVE AboveFloor(_)
AboveFloor(values) ==
    IF values = <<>> THEN <<>>
    ELSE (IF Head(values) > Tenths(SharesFloor) THEN <<Head(values)>>
          ELSE <<>>) \o AboveFloor(Tail(values))

\* C7: during and after the table pass weighted_avg_shares is the last
\* qualifying cell (first numeral above 1000, in a row with 'weighted
\* average' and 'shares') of the rows scanned so far, whatever Tier 1 found,
\* and the Tier-1 value (or None) when no cell qualified.
C7_SharesLastQualifyingCell ==
    pc \in {"tables", "returned"} =>
        LET q == AboveFloor(SharesCandidates(ScannedRows, row - 1))
        IN  data.weighted_avg_shares =
                IF q = <<>> THEN Tier1Shares ELSE Some(q[Len(q)])

C7_Witness ==
    /\ pc = "returned"
    /\ Tier1Shares # None
    /\ LET q == AboveFloor(SharesCandidates(ScannedRows, Len(ScannedRows)))
       IN  /\ Len(q) >= 2
           /\ q[1] # q[Len(q)]
           /\ data.weighted_avg_shares = Some(q[Len(q)])
           /\ data.weighted_avg_shares # Tier1Shares

\* C8: a step of the table pass that changes weighted_avg_shares leaves it
\* strictly above 1000.
C8_SharesFloor ==
    [][(pc = "tables" /\ data'.weighted_avg_shares # data.weighted_avg_shares)
        => (/\ data'.weighted_avg_shares # None
            /\ data'.weighted_avg_shares[1] > Tenths(SharesFloor))]_vars

\* a shares row was just scanned whose last candidate is at or below the
\* floor, and the stored value is not that candidate
C8_Witness ==
    /\ pc = "tables"
    /\ row > 1
    /\ IsSharesRow(JoinCells(ScannedRows[row - 1]))
    /\ LET c == CellValues(shares_cell_pattern, ScannedRows[row - 1])
       IN  /\ c # <<>>
           /\ c[Len(c)] <= Tenths(SharesFloor)
           /\ data.weighted_avg_shares # Some(c[Len(c)])

\* C9: after the text pass of a fact, the fact holds the value of the
\* lowest-numbered pattern whose leftmost match parses (None when there is
\* none; the dividend default comes later): a pattern whose match does not
\* parse is passed over, and a pattern after the first success is not read.
C9_PatternPriority ==
    /\ pc \in {"preferred_dividends", "default_dividends", "shares"} =>
           data.net_income = PriorityValue(net_income_patterns, text_content)
    /\ pc = "default_dividends" =>
           data.preferred_dividends =
               PriorityValue(preferred_dividends_patterns, text_content)
    /\ (pc = "tables" /\ row = 1) =>
           data.weighted_avg_shares =
               PriorityValue(shares_patterns, text_content)

\* the first net income pattern matched and did not parse, and a later
\* pattern gave the value
C9_Witness ==
    /\ pc = "preferred_dividends"
    /\ re_search(net_income_patterns[1], text_content).ok
    /\ ~PatternParses(net_income_patterns[1], text_content)
    /\ \E k \in 2..Len(net_income_patterns) :
           /\ PatternParses(net_income_patterns[k], text_content)
           /\ data.net_income =
                  Some(PatternValue(net_income_patterns[k], text_content))

\* C10: from the default on, preferred_dividends is never None: it is the
\* value of the first dividend pattern that parses, and 0.0 when there is
\* none (so for every document in which no dividend pattern matches); the
\* shares pass and the table pass leave it as it is.
C10_DividendsNeverNull ==
    pc \in {"shares", "tables", "returned"} =>
        /\ data.preferred_dividends # None
        /\ data.preferred_dividends =
               IF PriorityValue(preferred_dividends_patterns, text_content)
                      = None
               THEN Some(0)
               ELSE PriorityValue(preferred_dividends_patterns, text_content)
        /\ (\A k \in 1..Len(preferred_dividends_patterns) :
                ~re_search(preferred_dividends_patterns[k], text_content).ok)
           => data.preferred_dividends = Some(0)

\* returned with the default, after a shares match and a table pass that
\* changed the record
C10_Witness ==
    /\ pc = "returned"
    /\ \A k \in 1..Len(preferred_dividends_patterns) :
           ~re_search(preferred_dividends_patterns[k], text_content).ok
    /\ data.preferred_dividends = Some(0)
    /\ Tier1Shares # None
    /\ ScannedRows # <<>>
    /\ data # TextPass(text_content)

\* a cell that is one figure behind "$" or "(", closed or not by ")"
IsMarkedFigure(cell) ==
    /\ Len(cell) >= 2
    /\ cell[1] \in DollarParen
    /\ cell[2] \in Digits
    /\ \A j \in 2..Len(cell) : cell[j] \in DigitComma \cup {".", ")"}

\* the digits of a cell read as a number, everything else dropped
UnsignedValue(cell) ==
    LET IsDigitOrPoint(c) == c \in Digits \cup {"."}
    IN  ParseFloat(SelectSeq(cell, IsDigitOrPoint)).v

\* the figures behind "$" or "(" in the net income rows among the first n
\* rows
MarkedNetIncomeCells(rows, n) ==
    UNION { { rows[r][c] :
                c \in {j \in 1..Len(rows[r]) : IsMarkedFigure(rows[r][j])} } :
            r \in {q \in 1..n : IsNetIncomeRow(JoinCells(rows[q]))} }

Facts == {"net_income", "preferred_dividends", "weighted_avg_shares"}

C11_SameDocumentSameFacts ==
    /\ pc = "returned" =>
           \A k \in 1..Len(calls) :
               calls[k].document = soup =>
                   /\ calls[k].data.net_income = data.net_income
                   /\ calls[k].data.preferred_dividends
                          = data.preferred_dividends
                   /\ calls[k].data.weighted_avg_shares
                          = data.weighted_avg_shares
    /\ pc = "net_income" => data = EmptyData

\* a page is extracted a second time after a different page whose record
\* differs in every fact was extracted in between
C11_Witness ==
    /\ pc = "returned"
    /\ Len(calls) = 2
    /\ calls[1].document = soup
    /\ calls[2].document # soup
    /\ data.net_income # None
    /\ calls[2].data.net_income # data.net_income
    /\ calls[2].data.preferred_dividends # data.preferred_dividends
    /\ calls[2].data.weighted_avg_shares # data.weighted_avg_shares

(***************************************************************************)
(* Properties of scrape_amzn_prices.                                       *)
(***************************************************************************)
SeriesDates == {price_data[k].date : k \in 1..Len(price_data)}

CloseOn(date) ==
    CHOOSE c \in {price_data[k].Close :
                    k \in {j \in 1..Len(price_data) :
                             price_data[j].date = date}} : TRUE

Min(S) == CHOOSE x \in S : \A y \in S : x <= y

Max(S) == CHOOSE x \in S : \A y \in S : y <= x

OnOrAfterDates(date) == {d \in SeriesDates : d >= date}

OnOrBeforeDates(date) == {d \in SeriesDates : d <= date}

ParsedFilingDate(k) == to_datetime_date(filing_data[k].filing_date)

\* C2: a matched record whose filing date parses and has no entry in the
\* series gets the close of the smallest series date on or after it when
\* there is one, else the close of the largest series date on or before it,
\* and None only when there is neither.
C2_ForwardThenBackward ==
    \A k \in 1..Len(close_prices) :
        (ParsedFilingDate(k).ok /\ ParsedFilingDate(k).v \notin SeriesDates)
        => LET f == ParsedFilingDate(k).v
           IN  close_prices[k] =
                   IF OnOrAfterDates(f) # {}
                   THEN Some(CloseOn(Min(OnOrAfterDates(f))))
                   ELSE IF OnOrBeforeDates(f) # {}
                        THEN Some(CloseOn(Max(OnOrBeforeDates(f))))
                        ELSE None

\* a record between two series dates, the earlier one the nearer, was given
\* the later one's close, and a record after every series date the last close
C2_Witness ==
    /\ \E k \in 1..Len(close_prices) :
          LET f == ParsedFilingDate(k).v
          IN  /\ ParsedFilingDate(k).ok
              /\ f \notin SeriesDates
              /\ OnOrAfterDates(f) # {}
              /\ OnOrBeforeDates(f) # {}
              /\ f - Max(OnOrBeforeDates(f)) < Min(OnOrAfterDates(f)) - f
              /\ CloseOn(Max(OnOrBeforeDates(f)))
                     # CloseOn(Min(OnOrAfterDates(f)))
              /\ close_prices[k] = Some(CloseOn(Min(OnOrAfterDates(f))))
    /\ \E k \in 1..Len(close_prices) :
          LET f == ParsedFilingDate(k).v
          IN  /\ ParsedFilingDate(k).ok
              /\ OnOrAfterDates(f) = {}
              /\ close_prices[k] = Some(CloseOn(Max(OnOrBeforeDates(f))))

\* C3: a matched record whose filing date has an entry in the series gets
\* the close of that entry.
C3_ExactDate ==
    \A k \in 1..Len(close_prices) :
        (ParsedFilingDate(k).ok /\ ParsedFilingDate(k).v \in SeriesDates)
        => close_prices[k] = Some(CloseOn(ParsedFilingDate(k).v))

\* a record on a series date was given that date's close, the next trading
\* day having another close
C3_Witness ==
    \E k \in 1..Len(close_prices) :
        LET f == ParsedFilingDate(k).v
        IN  /\ ParsedFilingDate(k).ok
            /\ f \in SeriesDates
            /\ OnOrAfterDates(f) # {f}
            /\ CloseOn(Min(OnOrAfterDates(f) \ {f})) # CloseOn(f)
            /\ close_prices[k] = Some(CloseOn(f))

\* C4: when the price series is empty, every record of the file has a null
\* close_price once scrape_amzn_prices has returned.
C4_EmptySeriesAllNull ==
    (apc = "no_price_data" /\ csv_file # None)
    => \A k \in 1..Len(csv_file[1]) :
           /\ "close_price" \in DOMAIN csv_file[1][k]
           /\ csv_file[1][k].close_price = None

\* C6: the batch pass appends one entry for each record it has gone through,
\* None for a record whose date does not parse and the matched close for the
\* others; when the pass is over the column saved holds one entry for each
\* record, in record order.
C6_OneEntryPerRecord ==
    apc \in {"match", "done"} =>
        /\ Len(close_prices) = idx - 1
        /\ \A k \in 1..Len(close_prices) :
              close_prices[k] =
                  IF ParsedFilingDate(k).ok
                  THEN ClosePriceFor(ParsedFilingDate(k).v, price_data)
                  ELSE None
        /\ apc = "done" =>
              /\ Len(close_prices) = Len(filing_data)
              /\ \A k \in 1..Len(filing_data) :
                    filing_data[k].close_price = close_prices[k]
              /\ csv_file = Some(filing_data)

\* saved, after a first record whose date did not parse and a second one
\* that was matched
C6_Witness ==
    /\ apc = "done"
    /\ Len(filing_data) >= 2
    /\ ~ParsedFilingDate(1).ok
    /\ filing_data[1].close_price = None
    /\ ParsedFilingDate(2).ok
    /\ filing_data[2].close_price # None

(***************************************************************************)
(* Properties of AMZN10QScraper.scrape.                                    *)
(***************************************************************************)
\* C5: a failure while one filing is processed does not abort the batch:
\* when scrape has returned, every filing of filing_links has been gone
\* through by the loop.
C5_FailureDoesNotAbortBatch ==
    (spc = "returned" /\ filing_links # <<>>) => i > Len(filing_links)


\* setup_driver has returned: scrape is past line 395 and has not raised
\* out of it
SetupSucceeded == spc \notin {"idle", "setup", "raised"}

\* scrape has ended, by its return or by an exception it lets out
ScrapeEnded == spc \in {"returned", "displayed", "raised"}

\* C13: whenever setup_driver has succeeded, scrape ends with the browser
\* driver quit, on every path: the early return when no filing link is found,
\* an exception raised while the filings are fetched and processed, and
\* normal completion.  No ended scrape whose setup_driver succeeded has the
\* driver still open, and a scrape whose setup_driver succeeded does end
\* with the driver quit.
C13_DriverQuitOnEveryPath ==
    /\ []((SetupSucceeded /\ ScrapeEnded) => driver = "quit")
    /\ (SetupSucceeded ~> (ScrapeEnded /\ driver = "quit"))

\* scrape has returned with the driver quit after an exception raised while
\* the second of its filings was processed
C13_Witness ==
    /\ spc = "returned"
    /\ driver = "quit"
    /\ Len(filing_links) >= 2
    /\ i = 2
    /\ Len(results) = 1


(***************************************************************************)
(* Properties of the two scripts together.                                 *)
(***************************************************************************)
\* the date a record carries, as a day
RecordDay(record) == to_datetime_date(record.filing_date).v

\* C14: every record scrape appends carries as filing_date the date of
\* datetime.now() when it was appended, a day on which scrape ran, never a
\* date of the filing: a step that appends a record gives it today's date,
\* and every record's date is a day between the start of scrape and now.
\* So the records of a run that stays within one calendar day all carry the
\* same filing_date, and scrape_amzn_prices, reading the file
\* display_results wrote, gives the records of one filing_date the same
\* close_price.
C14_RecordsDatedByRunDay ==
    /\ [][Len(results') = Len(results) + 1 =>
              results'[Len(results')].filing_date = strftime(now)]_vars
    /\ [](\A k \in 1..Len(results) :
              /\ to_datetime_date(results[k].filing_date).ok
              /\ RecordDay(results[k]) >= StartDay
              /\ RecordDay(results[k]) <= now)
    /\ [](now = StartDay =>
              \A j, k \in 1..Len(results) :
                  results[j].filing_date = results[k].filing_date)
    /\ [](apc = "done" =>
              /\ Len(filing_data) = Len(results)
              /\ \A k \in 1..Len(results) :
                     filing_data[k].filing_date = results[k].filing_date
              /\ \A j, k \in 1..Len(filing_data) :
                     filing_data[j].filing_date = filing_data[k].filing_date
                         => filing_data[j].close_price
                                = filing_data[k].close_price)

\* a run within one day has recorded two filings of different pages, and
\* the price script has given both the close of the next trading day
C14_Witness ==
    /\ apc = "done"
    /\ now = StartDay
    /\ Len(filing_data) = 2
    /\ filing_data[1].document_url # filing_data[2].document_url
    /\ filing_data[1].net_income # filing_data[2].net_income
    /\ filing_data[1].filing_date = strftime(StartDay)
    /\ filing_data[1].close_price # None
    /\ filing_data[1].close_price = filing_data[2].close_price
    /\ ~InIndex(price_data, StartDay)

=============================================================================
